---- MODULE Spec2Model ----
(***************************************************************************)
(* Model of the audio transform pipelines of lumen-audio:                  *)
(*   src/src/features/audio_transform.py   (pipelines and their factory)   *)
(*   src/src/utils/utils_audio.py          (stereo_to_mono, time_stretch,  *)
(*                                          load_audio_from_file)          *)
(*                                                                         *)
(* Representation.                                                         *)
(*  - A waveform is a sequence of samples.  A sample is a position marker: *)
(*    k > 0 is "the k-th sample of the signal", 0 is a zero (padded)       *)
(*    sample.  Effects that change amplitudes only keep the markers.       *)
(*  - A tensor is a record [shape, data]; data is a nested sequence whose  *)
(*    nesting follows shape.  A cell produced by an extractor is a         *)
(*    positive marker that encodes its (row, column); 0 is a zero cell.    *)
(*  - Sampling rates, hop lengths and extractor shapes are scaled down     *)
(*    (a "second" of audio is 1 or 2 samples) so that the state space is   *)
(*    finite; every length formula is the one of the code.                 *)
(***************************************************************************)
EXTENDS Integers, Sequences, FiniteSets, TLC

(***************************************************************************)
(* Bounds of the model.                                                    *)
(***************************************************************************)
\* longest waveform handed to an operation, in samples
MaxAudioLen == 7
\* largest number of augmentations requested of one pipeline
MaxAugs == 2
\* config_defaults, scaled: samples between two frames
DEFAULT_HOP_LENGTH == 2
\* config_defaults, scaled: rows of a mel spectrogram
DEFAULT_N_MELS == 2
\* config_defaults, scaled: rows of an MFCC matrix
DEFAULT_N_MFCC == 2
\* config_defaults, scaled: seconds of the reference signal
DEFAULT_MAX_LEN == 1

(***************************************************************************)
(* Arithmetic helpers.                                                     *)
(***************************************************************************)
Max(a, b) == IF a >= b THEN a ELSE b

Min(a, b) == IF a <= b THEN a ELSE b

\* np.ceil of the exact quotient a / b, b > 0
CeilDiv(a, b) == (a + b - 1) \div b

\* Python's round() of the quotient a / b (b > 0): to nearest, ties to even
RoundHalfEven(a, b) ==
    LET q == a \div b
        r == a % b
    IN  IF 2 * r < b THEN q
        ELSE IF 2 * r > b THEN q + 1
        ELSE IF q % 2 = 0 THEN q ELSE q + 1

\* a rate is a fraction <<numerator, denominator>>
RateLeq(p, q) == p[1] * q[2] <= q[1] * p[2]

RateLt(p, q) == p[1] * q[2] < q[1] * p[2]

Zeros(n) == [i \in 1..n |-> 0]

\* the signal of n samples, each marked by its position
Waveform(n) == [i \in 1..n |-> i]

Waveforms == { Waveform(n) : n \in 0..MaxAudioLen }

(***************************************************************************)
(* utils_audio.py                                                          *)
(***************************************************************************)
\* a fix_length that cuts a long signal and leaves a short one as it is
fix_length_cut_only(data, size) ==
    IF Len(data) > size THEN SubSeq(data, 1, size) ELSE data

\* librosa.util.fix_length(data, size=size): cut at the end, or pad zeros at
\* the end
fix_length(data, size) ==
    IF Len(data) > size THEN SubSeq(data, 1, size)
    ELSE data \o Zeros(size - Len(data))

\* len of librosa.effects.time_stretch(y, rate): int(round(len(y) / rate))
stretched_len(n, rate) == RoundHalfEven(n * rate[2], rate[1])

\* librosa.effects.time_stretch(y=audio, rate=rate): a resynthesised signal of
\* stretched_len samples
librosa_time_stretch(audio, rate) == Waveform(stretched_len(Len(audio), rate))

\* the values np.random.uniform(min_stretch, max_stretch) can return, on the
\* grid of rates: [min, max), and min itself when the range is degenerate
RateGrid == { <<1, 2>>, <<4, 5>>, <<1, 1>>, <<6, 5>>, <<2, 1>> }

uniform_rates(min_stretch, max_stretch) ==
    IF min_stretch = max_stretch THEN { min_stretch }
    ELSE { q \in RateGrid : RateLeq(min_stretch, q) /\ RateLt(q, max_stretch) }

\* diff of time_stretch (line 40)
trim_diff(audio, rate) ==
    Max(Len(librosa_time_stretch(audio, rate)) - Len(audio), 0)

\* the values np.random.randint(0, diff + 1) can return
randint_offsets(diff) == 0..diff

\* audio[offset:]
DropFirst(audio, offset) == SubSeq(audio, offset + 1, Len(audio))

\* time_stretch without the final fix_length: the window is cut, never padded
time_stretch_nopad(audio, rate, offset, trim) ==
    LET stretched == librosa_time_stretch(audio, rate)
        audio_offset == DropFirst(stretched, offset)
    IN  IF ~trim THEN stretched
        ELSE SubSeq(audio_offset, 1, Min(Len(audio), Len(audio_offset)))

\* time_stretch(audio, min_stretch, max_stretch, trim) once stretch_rate and
\* offset are drawn
time_stretch(audio, rate, offset, trim) ==
    LET size_before == Len(audio)
        stretched == librosa_time_stretch(audio, rate)
        audio_offset == DropFirst(stretched, offset)
    IN  IF ~trim THEN stretched
        ELSE fix_length(audio_offset, size_before)

\* librosa.to_mono(y) on an ndarray given as a sequence of channels (2-D) or as
\* a bare sequence of samples (1-D): the mean over the channel axis
to_mono(ndim, y) ==
    IF ndim = 1 THEN y
    ELSE [i \in 1..Len(y[1]) |->
            (LET RECURSIVE Sum(_)
                 Sum(c) == IF c = 0 THEN 0 ELSE y[c][i] + Sum(c - 1)
             IN  Sum(Len(y)) \div Len(y))]

\* stereo_to_mono(audio): torch.mean(audio, dim=0).unsqueeze(0) for a tensor
\* of shape (channels, n), librosa.to_mono(audio) for an ndarray.  The result
\* is [shape, data]; no branch raises.
stereo_to_mono(kind, ndim, audio) ==
    IF kind = "tensor"
    THEN LET m == to_mono(2, audio)
         IN  [shape |-> <<1, Len(m)>>, data |-> <<m>>]
    ELSE LET m == to_mono(ndim, audio)
         IN  [shape |-> <<Len(m)>>, data |-> m]

\* the parameters load_audio_from_file declares (line 47-49)
load_audio_from_file_params == { "audio_path", "method", "normalize" }

\* the keyword arguments process_from_file passes to it (line 80-85)
process_from_file_kwargs ==
    { "audio_path", "method", "normalize", "target_sr" }

(***************************************************************************)
(* Tensors: [shape |-> <<d1, ..., dk>>, data |-> nested sequence].         *)
(***************************************************************************)
\* the marker of the extractor cell in row r, column c (never 0)
Cell(r, c) == r * 100 + c

RECURSIVE Numel(_)
Numel(shape) == IF Len(shape) = 0 THEN 1 ELSE Head(shape) * Numel(Tail(shape))

\* row-major flattening of data of the given rank
RECURSIVE Flatten(_, _)
Flatten(data, rank) ==
    IF rank = 1 THEN data
    ELSE IF Len(data) = 0 THEN <<>>
    ELSE Flatten(Head(data), rank - 1) \o Flatten(Tail(data), rank)

RECURSIVE Build(_, _)
Build(flat, shape) ==
    IF Len(shape) = 1 THEN flat
    ELSE LET inner == Numel(Tail(shape))
         IN  [i \in 1..Head(shape) |->
                Build(SubSeq(flat, (i - 1) * inner + 1, i * inner), Tail(shape))]

\* Tensor.reshape(*shape); the element counts agree at every call site
reshape(t, shape) ==
    [shape |-> shape, data |-> Build(Flatten(t.data, Len(t.shape)), shape)]

RECURSIVE Wrap(_, _)
Wrap(data, k) == IF k = 0 THEN data ELSE << Wrap(data, k - 1) >>

RECURSIVE TileData(_, _, _)
TileData(data, shape, reps) ==
    IF Len(shape) = 0 THEN data
    ELSE LET inner == [i \in 1..Head(shape) |->
                          TileData(data[i], Tail(shape), Tail(reps))]
         IN  [j \in 1..(Head(shape) * Head(reps)) |->
                inner[((j - 1) % Head(shape)) + 1]]

\* repeat along the first axis instead of the channel axis
tensor_repeat_axis0(t, reps) ==
    LET k == Len(reps) - Len(t.shape)
        shp == [i \in 1..k |-> 1] \o t.shape
        swapped == <<reps[2], reps[1]>> \o SubSeq(reps, 3, Len(reps))
    IN  [shape |-> [i \in 1..Len(reps) |-> shp[i] * swapped[i]],
         data |-> TileData(Wrap(t.data, k), shp, swapped)]

\* Tensor.repeat(*reps): the shape is left-padded with 1s to len(reps), then
\* axis i is tiled reps[i] times
tensor_repeat(t, reps) ==
    LET k == Len(reps) - Len(t.shape)
        shp == [i \in 1..k |-> 1] \o t.shape
    IN  [shape |-> [i \in 1..Len(reps) |-> shp[i] * reps[i]],
         data |-> TileData(Wrap(t.data, k), shp, reps)]

\* t[0]
Index0(t) == [shape |-> Tail(t.shape), data |-> t.data[1]]

\* the source index resize samples for output index i (h inputs, H outputs)
SrcIndex(i, h, H) == ((i - 1) * h) \div H + 1

\* resize with the target size read as (W, H)
resize_swapped(t, size) ==
    LET h == t.shape[3]
        w == t.shape[4]
    IN  [shape |-> <<t.shape[1], t.shape[2], size[2], size[1]>>,
         data |-> [b \in 1..t.shape[1] |-> [c \in 1..t.shape[2] |->
                    [i \in 1..size[2] |-> [j \in 1..size[1] |->
                        t.data[b][c][SrcIndex(i, h, size[2])]
                                    [SrcIndex(j, w, size[1])]]]]]]

\* torchvision F.resize(t, size=size, antialias=True) on a (B, C, h, w)
\* tensor: the output is (B, C, size[0], size[1]).  The interpolation kernel is
\* abstracted to sampling the source cell at the scaled index.
resize(t, size) ==
    LET h == t.shape[3]
        w == t.shape[4]
    IN  [shape |-> <<t.shape[1], t.shape[2], size[1], size[2]>>,
         data |-> [b \in 1..t.shape[1] |-> [c \in 1..t.shape[2] |->
                    [i \in 1..size[1] |-> [j \in 1..size[2] |->
                        t.data[b][c][SrcIndex(i, h, size[1])]
                                    [SrcIndex(j, w, size[2])]]]]]]

\* list(Tensor.split(width, dim=1)) on a 2-D tensor: consecutive segments of
\* width columns, the last one shorter when width does not divide the length
split(t, width) ==
    LET T == t.shape[2]
        n == CeilDiv(T, width)
    IN  [i \in 1..n |->
            LET lo == (i - 1) * width + 1
                hi == Min(i * width, T)
            IN  [shape |-> <<t.shape[1], hi - lo + 1>>,
                 data |-> [r \in 1..t.shape[1] |-> SubSeq(t.data[r], lo, hi)]]]

\* chunk_padded = torch.zeros(size=seq_dim); chunk_padded[:w, :h] = chunk
pad_chunk(chunk, seq_dim) ==
    LET w == chunk.shape[1]
        h == chunk.shape[2]
    IN  [shape |-> seq_dim,
         data |-> [r \in 1..seq_dim[1] |-> [c \in 1..seq_dim[2] |->
                     IF r <= w /\ c <= h THEN chunk.data[r][c] ELSE 0]]]

(***************************************************************************)
(* Enumerations (src/features/supported_augmentations.py): the members     *)
(* the pipelines refer to.                                                 *)
(***************************************************************************)
WaveformAugmentations ==
    { "TIME_STRETCH", "PITCH", "BANDPASS_FILTER", "COLOR_NOISE", "TIMEINV" }

SpecAugmentations ==
    { "FREQ_MASK", "TIME_MASK", "RANDOM_ERASE", "RANDOM_PIXELS" }

SupportedAugmentations == WaveformAugmentations \cup SpecAugmentations

\* the transforms get_audio_transform has a branch for
SupportedTransforms ==
    { "AST", "MEL_SPECTROGRAM_FIXED_REPEAT", "MEL_SPECTROGRAM_RESIZE_REPEAT",
      "WAV2VEC", "MFCC_FIXED_REPEAT" }

\* AudioTransforms, and values that are no member the factory knows
AudioTransforms == SupportedTransforms \cup { "OTHER_TRANSFORM", "None" }

(***************************************************************************)
(* config_defaults (src/config/config_defaults.py); the sizes among them   *)
(* are scaled and listed with the bounds.                                  *)
(***************************************************************************)
\* channels of the repeated output
DEFAULT_REPEAT == 3

FAKE_SAMPLE_RATE == 44100

\* the shape ASTFeatureExtractor emits, (batch, frames, mel bins); the
\* pretrained extractor's (1, 1024, 128) scaled down
ASTShape == <<1, 2, 2>>

(***************************************************************************)
(* Extractors.                                                             *)
(***************************************************************************)
ExtractorData(rows, cols) == [r \in 1..rows |-> [c \in 1..cols |-> Cell(r, c)]]

\* frames librosa's centred STFT yields for n samples
n_frames(n, hop_length) == 1 + n \div hop_length

\* librosa.feature.melspectrogram(y=audio, ...): (n_mels, frames)
melspectrogram(audio, n_mels, hop_length) ==
    LET T == n_frames(Len(audio), hop_length)
    IN  [shape |-> <<n_mels, T>>, data |-> ExtractorData(n_mels, T)]

\* librosa.feature.mfcc(y=audio, ...): (n_mfcc, frames)
mfcc(audio, n_mfcc, hop_length) ==
    LET T == n_frames(Len(audio), hop_length)
    IN  [shape |-> <<n_mfcc, T>>, data |-> ExtractorData(n_mfcc, T)]

\* len(librosa.resample(y, orig_sr, target_sr)) = ceil(len(y) * target / orig)
resample_len(n, orig_sr, target_sr) == CeilDiv(n * target_sr, orig_sr)

\* ASTFeatureExtractor(audio, ...)["input_values"]: padded or cut to a fixed
\* number of frames whatever the length of audio
ASTFeatureExtractor(audio) ==
    [shape |-> ASTShape,
     data |-> << ExtractorData(ASTShape[2], ASTShape[3]) >>]

\* Wav2Vec2FeatureExtractor(audio, padding=True).input_values: (1, len(audio));
\* the amplitude normalisation keeps every sample at its position
Wav2Vec2FeatureExtractor(audio) ==
    [shape |-> <<1, Len(audio)>>, data |-> << audio >>]

\* Tensor.squeeze(0)
squeeze0(t) == IF t.shape[1] = 1 THEN Index0(t) ELSE t

(***************************************************************************)
(* Constructors.  A pipeline is a record of the attributes __init__ sets.  *)
(***************************************************************************)
NoPipeline == [cls |-> "None"]

\* a fraction <<num, den>>
DefaultStretchFactors == << <<4, 5>>, <<6, 5>> >>

\* defaults of AudioTransformBase.__init__ (mask widths scaled from 30)
DefaultKwargs ==
    [stretch_factors |-> DefaultStretchFactors,
     freq_mask_param |-> 2,
     time_mask_param |-> 2,
     hide_random_pixels_p |-> <<1, 4>>,
     std_noise |-> <<1, 100>>]

\* the **aug_kwargs handed to the factory
AugKwargs ==
    { DefaultKwargs,
      [DefaultKwargs EXCEPT !.stretch_factors = << <<6, 5>>, <<6, 5>> >>],
      [DefaultKwargs EXCEPT !.hide_random_pixels_p = <<0, 1>>],
      [DefaultKwargs EXCEPT !.hide_random_pixels_p = <<1, 1>>] }

AudioTransformBase_init(cls, sampling_rate, augmentation_enums, kw) ==
    [cls |-> cls,
     sampling_rate |-> sampling_rate,
     augmentation_enums |-> augmentation_enums,
     stretch_factors |-> kw.stretch_factors,
     freq_mask_param |-> kw.freq_mask_param,
     time_mask_param |-> kw.time_mask_param,
     has_augmentations |-> Cardinality(augmentation_enums) > 0,
     hide_random_pixels_p |-> kw.hide_random_pixels_p,
     std_noise |-> kw.std_noise]

\* f @@ g without shadowing TLC's operator precedence at the call sites
With(base, extra) == extra @@ base

\* seq_dim of MelSpectrogramFixed / MFCCFixed: the shape of the features of a
\* dummy signal of max_len seconds resampled from FAKE_SAMPLE_RATE
seq_dim_of(rows, max_len, sampling_rate, hop_length) ==
    << rows,
       n_frames(resample_len(max_len * FAKE_SAMPLE_RATE, FAKE_SAMPLE_RATE,
                             sampling_rate), hop_length) >>

AudioTransformAST_init(sampling_rate, augmentation_enums, kw) ==
    AudioTransformBase_init("AudioTransformAST", sampling_rate,
                            augmentation_enums, kw)

AudioTransformWav2Vec2_init(sampling_rate, augmentation_enums, kw) ==
    AudioTransformBase_init("AudioTransformWav2Vec2", sampling_rate,
                            augmentation_enums, kw)

MelSpectrogramResizedRepeat_init(sampling_rate, dim, repeat, augmentation_enums, kw) ==
    With(AudioTransformBase_init("MelSpectrogramResizedRepeat", sampling_rate,
                                 augmentation_enums, kw),
         [hop_length |-> DEFAULT_HOP_LENGTH, n_mels |-> DEFAULT_N_MELS,
          dim |-> dim, repeat |-> repeat])

MelSpectrogramFixedRepeat_init(sampling_rate, dim, repeat, max_len, augmentation_enums, kw) ==
    With(AudioTransformBase_init("MelSpectrogramFixedRepeat", sampling_rate,
                                 augmentation_enums, kw),
         [hop_length |-> DEFAULT_HOP_LENGTH, n_mels |-> DEFAULT_N_MELS,
          max_len |-> max_len, dim |-> dim,
          seq_dim |-> seq_dim_of(DEFAULT_N_MELS, max_len, sampling_rate,
                                 DEFAULT_HOP_LENGTH),
          repeat |-> repeat])

MFCCFixedRepeat_init(sampling_rate, dim, n_mfcc, repeat, hop_length, n_mels, max_len, augmentation_enums, kw) ==
    With(AudioTransformBase_init("MFCCFixedRepeat", sampling_rate,
                                 augmentation_enums, kw),
         [n_mfcc |-> n_mfcc, hop_length |-> hop_length, n_mels |-> n_mels,
          max_len |-> max_len, dim |-> dim,
          seq_dim |-> seq_dim_of(n_mfcc, max_len, sampling_rate, hop_length),
          repeat |-> repeat])

\* the class each supported transform is built as
ClassOf(e) ==
    CASE e = "AST" -> "AudioTransformAST"
      [] e = "MEL_SPECTROGRAM_FIXED_REPEAT" -> "MelSpectrogramFixedRepeat"
      [] e = "MEL_SPECTROGRAM_RESIZE_REPEAT" -> "MelSpectrogramResizedRepeat"
      [] e = "WAV2VEC" -> "AudioTransformWav2Vec2"
      [] e = "MFCC_FIXED_REPEAT" -> "MFCCFixedRepeat"
      [] OTHER -> "None"

\* a factory that falls back to the AST pipeline instead of raising
get_audio_transform_fallback(audio_transform_enum, sampling_rate, augmentation_enums, dim, kw) ==
    [raised |-> "none",
     constructed |-> << "AudioTransformAST" >>,
     result |-> AudioTransformAST_init(sampling_rate, augmentation_enums, kw)]

\* get_audio_transform: [raised, constructed, result]; constructed lists the
\* classes whose constructor ran
get_audio_transform(audio_transform_enum, sampling_rate, augmentation_enums, dim, kw) ==
    IF audio_transform_enum = "AST"
    THEN [raised |-> "none", constructed |-> << "AudioTransformAST" >>,
          result |-> AudioTransformAST_init(sampling_rate,
                                            augmentation_enums, kw)]
    ELSE IF audio_transform_enum = "MEL_SPECTROGRAM_FIXED_REPEAT"
    THEN [raised |-> "none", constructed |-> << "MelSpectrogramFixedRepeat" >>,
          result |-> MelSpectrogramFixedRepeat_init(
                        sampling_rate, dim, DEFAULT_REPEAT, DEFAULT_MAX_LEN,
                        augmentation_enums, kw)]
    ELSE IF audio_transform_enum = "MEL_SPECTROGRAM_RESIZE_REPEAT"
    THEN [raised |-> "none",
          constructed |-> << "MelSpectrogramResizedRepeat" >>,
          result |-> MelSpectrogramResizedRepeat_init(
                        sampling_rate, dim, DEFAULT_REPEAT,
                        augmentation_enums, kw)]
    ELSE IF audio_transform_enum = "WAV2VEC"
    THEN [raised |-> "none", constructed |-> << "AudioTransformWav2Vec2" >>,
          result |-> AudioTransformWav2Vec2_init(sampling_rate,
                                                 augmentation_enums, kw)]
    ELSE IF audio_transform_enum = "MFCC_FIXED_REPEAT"
    THEN [raised |-> "none", constructed |-> << "MFCCFixedRepeat" >>,
          result |-> MFCCFixedRepeat_init(
                        sampling_rate, dim, DEFAULT_N_MFCC, DEFAULT_REPEAT,
                        DEFAULT_HOP_LENGTH, DEFAULT_N_MELS, DEFAULT_MAX_LEN,
                        augmentation_enums, kw)]
    ELSE [raised |-> "UnsupportedAudioTransforms", constructed |-> << >>,
          result |-> NoPipeline]

(***************************************************************************)
(* process.  Every process operator returns                                *)
(*   [err, kind, value, steps, locals]:                                    *)
(* the exception raised ("none" when it returns), the kind of the value    *)
(* returned ("tensor", "list" of tensors, "none"), the value, the steps    *)
(* that ran in order, and the local variables the claims refer to: audio   *)
(* as the extractor receives it, audio as it is after the stretch branch   *)
(* (stretched), the spectrogram and the chunks.                            *)
(* The random draws of one call are the record d.                          *)
(***************************************************************************)
NoTensor == [shape |-> << >>, data |-> << >>]

NoLocals ==
    [audio |-> << >>, stretched |-> << >>, spectrogram |-> NoTensor,
     chunks |-> << >>]

NoDraws ==
    [lib |-> "ok", rate |-> <<1, 1>>, offset |-> 0, timeinv |-> FALSE,
     fm |-> <<0, 0>>, tm |-> <<0, 0>>, erase |-> <<0, 0, 0, 0>>, u |-> << >>]

Raise(e, steps) ==
    [err |-> e, kind |-> "none", value |-> << >>, steps |-> steps,
     locals |-> NoLocals]

Return(kind, value, steps, locals) ==
    [err |-> "none", kind |-> kind, value |-> value, steps |-> steps,
     locals |-> locals]

\* what librosa does with a zero-length signal depends on its version and its
\* padding mode: it raises, or it yields the frames of an all-padding signal
LibraryOutcomes == { "ok", "raise" }

\* MelSpectrogramOurs.process
MelSpectrogramOurs_process(self, audio, d) ==
    IF Len(audio) = 0 /\ d.lib = "raise"
    THEN Raise("LibraryError", << "melspectrogram" >>)
    ELSE LET spectrogram == melspectrogram(audio, self.n_mels, self.hop_length)
         IN  Return("tensor", spectrogram, << "melspectrogram" >>,
                    [NoLocals EXCEPT !.audio = audio,
                                     !.spectrogram = spectrogram])

\* MFCC.process
MFCC_process(self, audio, d) ==
    IF Len(audio) = 0 /\ d.lib = "raise"
    THEN Raise("LibraryError", << "mfcc" >>)
    ELSE LET spectrogram == mfcc(audio, self.n_mfcc, self.hop_length)
         IN  Return("tensor", spectrogram, << "mfcc" >>,
                    [NoLocals EXCEPT !.audio = audio,
                                     !.spectrogram = spectrogram])

\* the chunking that never pads the last chunk
chunk_and_resize_nopad(self, spectrogram) ==
    LET chunks == split(spectrogram, self.seq_dim[2])
    IN  [chunks |-> chunks,
         resized |-> [i \in 1..Len(chunks) |->
                        Index0(Index0(resize(
                            reshape(chunks[i], <<1, 1>> \o chunks[i].shape),
                            self.dim)))]]

\* lines 161-173 and 398-410, the same code in MFCCFixed.process and
\* MelSpectrogramFixed.process: [chunks, resized], the chunks as they are when
\* the resize loop starts and the list the method returns
chunk_and_resize(self, spectrogram) ==
    LET chunks == split(spectrogram, self.seq_dim[2])
        n == Len(chunks)
        padded == IF spectrogram.shape[2] % self.seq_dim[2] # 0
                  THEN [chunks EXCEPT ![n] = pad_chunk(chunks[n], self.seq_dim)]
                  ELSE chunks
    IN  [chunks |-> padded,
         resized |-> [i \in 1..n |->
                        Index0(Index0(resize(
                            reshape(padded[i], <<1, 1>> \o self.seq_dim),
                            self.dim)))]]

ChunkSteps(spectrogram, seq_dim) ==
    << "split" >>
    \o (IF spectrogram.shape[2] % seq_dim[2] # 0 THEN << "pad" >> ELSE << >>)
    \o << "resize" >>

\* MFCCFixed.process
MFCCFixed_process(self, audio, d) ==
    LET r == MFCC_process(self, audio, d)
    IN  IF r.err # "none" THEN r
        ELSE LET c == chunk_and_resize(self, r.value)
             IN  Return("list", c.resized,
                        r.steps \o ChunkSteps(r.value, self.seq_dim),
                        [r.locals EXCEPT !.chunks = c.chunks])

\* MelSpectrogramFixed.process
MelSpectrogramFixed_process(self, audio, d) ==
    LET r == MelSpectrogramOurs_process(self, audio, d)
    IN  IF r.err # "none" THEN r
        ELSE LET c == chunk_and_resize(self, r.value)
             IN  Return("list", c.resized,
                        r.steps \o ChunkSteps(r.value, self.seq_dim),
                        [r.locals EXCEPT !.chunks = c.chunks])

\* the repeat loop that unwraps the list when it holds one chunk
repeat_chunks_unwrap(self, r) ==
    IF r.err # "none" THEN r
    ELSE LET out == [i \in 1..Len(r.value) |->
                        Index0(tensor_repeat(r.value[i],
                                             <<1, self.repeat, 1, 1>>))]
         IN  IF Len(out) = 1
             THEN Return("tensor", out[1], r.steps \o << "repeat" >>, r.locals)
             ELSE Return("list", out, r.steps \o << "repeat" >>, r.locals)

\* lines 193-198 and 430-435: the repeat loop over the chunks of the parent's
\* result r
repeat_chunks(self, r) ==
    IF r.err # "none" THEN r
    ELSE Return("list",
                [i \in 1..Len(r.value) |->
                    Index0(tensor_repeat(r.value[i],
                                         <<1, self.repeat, 1, 1>>))],
                r.steps \o << "repeat" >>, r.locals)

\* MFCCFixedRepeat.process
MFCCFixedRepeat_process(self, audio, d) ==
    repeat_chunks(self, MFCCFixed_process(self, audio, d))

\* MelSpectrogramFixedRepeat.process
MelSpectrogramFixedRepeat_process(self, audio, d) ==
    repeat_chunks(self, MelSpectrogramFixed_process(self, audio, d))

\* MelSpectrogramResize.process
MelSpectrogramResize_process(self, audio, d) ==
    LET r == MelSpectrogramOurs_process(self, audio, d)
    IN  IF r.err # "none" THEN r
        ELSE LET s1 == reshape(r.value, <<1, 1>> \o r.value.shape)
                 s2 == resize(s1, self.dim)
                 s3 == reshape(s2, <<1>> \o self.dim)
             IN  Return("tensor", s3, r.steps \o << "resize" >>, r.locals)

\* MelSpectrogramResizedRepeat.process
MelSpectrogramResizedRepeat_process(self, audio, d) ==
    LET r == MelSpectrogramResize_process(self, audio, d)
    IN  IF r.err # "none" THEN r
        ELSE Return("tensor",
                    Index0(tensor_repeat(r.value, <<1, self.repeat, 1, 1>>)),
                    r.steps \o << "repeat" >>, r.locals)

(***************************************************************************)
(* AudioTransformAST                                                       *)
(***************************************************************************)
Reverse(seq) == [i \in 1..Len(seq) |-> seq[Len(seq) + 1 - i]]

\* the steps of apply_waveform_augmentations, in the order of the code
WaveformSteps(augs) ==
    (IF "TIME_STRETCH" \in augs THEN << "time_stretch" >> ELSE << >>)
    \o (IF "PITCH" \in augs THEN << "pitch_shift" >> ELSE << >>)
    \o (IF "BANDPASS_FILTER" \in augs THEN << "bandpass_filter" >> ELSE << >>)
    \o (IF "COLOR_NOISE" \in augs THEN << "color_noise" >> ELSE << >>)
    \o (IF "TIMEINV" \in augs THEN << "timeinv" >> ELSE << >>)

\* AudioTransformAST.apply_waveform_augmentations: the stretch is not trimmed;
\* pitch shift, band-pass and coloured noise change amplitudes only;
\* TimeInversion(p=0.5) reverses the signal when d.timeinv is drawn
apply_waveform_augmentations(self, audio, d) ==
    LET a1 == IF "TIME_STRETCH" \in self.augmentation_enums
              THEN librosa_time_stretch(audio, d.rate)
              ELSE audio
    IN  IF "TIMEINV" \in self.augmentation_enums /\ d.timeinv
        THEN Reverse(a1)
        ELSE a1

\* torchaudio mask_along_axis on a (B, F, M) tensor: the cells whose index on
\* `axis` (2 or 3) lies in [start, start + width) become 0; band = <<start, width>>
mask_along_axis(t, band, axis) ==
    LET hit(k) == band[1] < k /\ k <= band[1] + band[2]
    IN  [t EXCEPT !.data =
            [b \in 1..t.shape[1] |-> [f \in 1..t.shape[2] |->
                [m \in 1..t.shape[3] |->
                    IF (axis = 2 /\ hit(f)) \/ (axis = 3 /\ hit(m))
                    THEN 0 ELSE t.data[b][f][m]]]]]

\* the bands mask_along_axis can draw: width = long(rand * param),
\* start = long(rand * (size - rand * param))
MaskDraws(param, size) ==
    { <<0, 0>> } \cup
    { b \in (0..size) \X (1..size) :
        b[2] <= param - 1 /\ b[1] + b[2] <= size - 1 }

\* torchvision RandomErasing(p=1) on a (C, H, W) tensor: e = <<i, j, h, w>>,
\* the rectangle of h x w cells at (i, j) becomes 0 in every channel;
\* <<0, 0, 0, 0>> is the draw where no rectangle fits and the image is kept
random_erasing(t, e) ==
    [t EXCEPT !.data =
        [b \in 1..t.shape[1] |-> [f \in 1..t.shape[2] |->
            [m \in 1..t.shape[3] |->
                IF e[1] < f /\ f <= e[1] + e[3] /\ e[2] < m /\ m <= e[2] + e[4]
                THEN 0 ELSE t.data[b][f][m]]]]]

EraseDraws(H, W) ==
    { <<0, 0, 0, 0>> } \cup
    { e \in (0..H) \X (0..W) \X (1..H) \X (1..W) :
        e[3] < H /\ e[4] < W /\ e[1] + e[3] <= H /\ e[2] + e[4] <= W }

\* the values FloatTensor.uniform_() draws, in [0, 1)
UGrid == { <<0, 1>>, <<3, 4>> }

UDraws(shape) == [1..shape[1] -> [1..shape[2] -> [1..shape[3] -> UGrid]]]

\* mask that also selects the cells that draw exactly p
pixel_mask_leq(u, p, shape) ==
    [b \in 1..shape[1] |-> [f \in 1..shape[2] |-> [m \in 1..shape[3] |->
        RateLeq(u[b][f][m], p)]]]

\* mask = uniform_() < hide_random_pixels_p (lines 273-276)
pixel_mask(u, p, shape) ==
    [b \in 1..shape[1] |-> [f \in 1..shape[2] |-> [m \in 1..shape[3] |->
        RateLt(u[b][f][m], p)]]]

\* the k-th sample torch.normal draws, a marker no extractor cell carries
NoiseSample(k) == 0 - k

\* the number of selected cells up to (b, f, m), in row-major order
MaskRank(mask, shape, b, f, m) ==
    Cardinality({ c \in (1..shape[1]) \X (1..shape[2]) \X (1..shape[3]) :
        /\ mask[c[1]][c[2]][c[3]]
        /\ ((c[1] - 1) * shape[2] + (c[2] - 1)) * shape[3] + c[3]
           <= ((b - 1) * shape[2] + (f - 1)) * shape[3] + m })

\* spectrogram[mask] = noise (line 284): the selected cells take the noise
\* samples in row-major order
random_pixels(t, mask) ==
    [t EXCEPT !.data =
        [b \in 1..t.shape[1] |-> [f \in 1..t.shape[2] |->
            [m \in 1..t.shape[3] |->
                IF mask[b][f][m]
                THEN NoiseSample(MaskRank(mask, t.shape, b, f, m))
                ELSE t.data[b][f][m]]]]]

SpecSteps(augs) ==
    (IF "FREQ_MASK" \in augs THEN << "freq_mask" >> ELSE << >>)
    \o (IF "TIME_MASK" \in augs THEN << "time_mask" >> ELSE << >>)
    \o (IF "RANDOM_ERASE" \in augs THEN << "random_erase" >> ELSE << >>)
    \o (IF "RANDOM_PIXELS" \in augs THEN << "random_pixels" >> ELSE << >>)

\* AudioTransformAST.apply_spec_augmentations
apply_spec_augmentations(self, spectrogram, d) ==
    LET augs == self.augmentation_enums
        s1 == IF "FREQ_MASK" \in augs
              THEN mask_along_axis(spectrogram, d.fm, 2) ELSE spectrogram
        s2 == IF "TIME_MASK" \in augs
              THEN mask_along_axis(s1, d.tm, 3) ELSE s1
        s3 == IF "RANDOM_ERASE" \in augs
              THEN random_erasing(s2, d.erase) ELSE s2
    IN  IF "RANDOM_PIXELS" \in augs
        THEN random_pixels(s3, pixel_mask(d.u, self.hide_random_pixels_p,
                                          s3.shape))
        ELSE s3

\* AudioTransformAST.process.  On a zero-length signal the libraries raise an
\* error of their own or pad it to the fixed number of frames (d.lib).
AudioTransformAST_process(self, audio, d) ==
    LET augs == self.augmentation_enums
        a == apply_waveform_augmentations(self, audio, d)
    IN  IF Len(a) = 0 /\ d.lib = "raise"
        THEN Raise("LibraryError",
                   WaveformSteps(augs) \o << "feature_extractor" >>)
        ELSE LET spectrogram == ASTFeatureExtractor(a)
             IN  Return("tensor",
                        apply_spec_augmentations(self, spectrogram, d),
                        WaveformSteps(augs) \o << "feature_extractor" >>
                            \o SpecSteps(augs),
                        [NoLocals EXCEPT !.audio = a,
                                         !.spectrogram = spectrogram])

(***************************************************************************)
(* AudioTransformWav2Vec2                                                  *)
(***************************************************************************)
\* a process that also honours TIME_MASK, zeroing the first sample
AudioTransformWav2Vec2_process_masking(self, audio, d) ==
    LET stretch == "TIME_STRETCH" \in self.augmentation_enums
    IN  IF stretch /\ Len(audio) = 0 /\ d.lib = "raise"
        THEN Raise("LibraryError", << "time_stretch" >>)
        ELSE LET a1 == IF stretch
                       THEN time_stretch(audio, d.rate, d.offset, TRUE)
                       ELSE audio
                 a2 == fix_length(a1, self.sampling_rate * 3)
                 a3 == IF "TIME_MASK" \in self.augmentation_enums
                       THEN [i \in 1..Len(a2) |-> IF i = 1 THEN 0 ELSE a2[i]]
                       ELSE a2
             IN  Return("tensor", squeeze0(Wav2Vec2FeatureExtractor(a3)),
                        (IF stretch THEN << "time_stretch" >> ELSE << >>)
                            \o << "fix_length", "feature_extractor" >>,
                        [NoLocals EXCEPT !.audio = a3, !.stretched = a1])

\* AudioTransformWav2Vec2.process
AudioTransformWav2Vec2_process(self, audio, d) ==
    LET stretch == "TIME_STRETCH" \in self.augmentation_enums
    IN  IF stretch /\ Len(audio) = 0 /\ d.lib = "raise"
        THEN Raise("LibraryError", << "time_stretch" >>)
        ELSE LET a1 == IF stretch
                       THEN time_stretch(audio, d.rate, d.offset, TRUE)
                       ELSE audio
                 a2 == fix_length(a1, self.sampling_rate * 3)
                 features == squeeze0(Wav2Vec2FeatureExtractor(a2))
             IN  Return("tensor", features,
                        (IF stretch THEN << "time_stretch" >> ELSE << >>)
                            \o << "fix_length", "feature_extractor" >>,
                        [NoLocals EXCEPT !.audio = a2, !.stretched = a1])

(***************************************************************************)
(* Dispatch of self.process on the class of the instance.                  *)
(***************************************************************************)
process(self, audio, d) ==
    CASE self.cls = "AudioTransformAST" ->
            AudioTransformAST_process(self, audio, d)
      [] self.cls = "AudioTransformWav2Vec2" ->
            AudioTransformWav2Vec2_process(self, audio, d)
      [] self.cls = "MelSpectrogramFixedRepeat" ->
            MelSpectrogramFixedRepeat_process(self, audio, d)
      [] self.cls = "MelSpectrogramResizedRepeat" ->
            MelSpectrogramResizedRepeat_process(self, audio, d)
      [] self.cls = "MFCCFixedRepeat" ->
            MFCCFixedRepeat_process(self, audio, d)

\* a process that caches the shape of the spectrogram it has just extracted
\* as the reference shape of the fixed pipeline
self_after_process_recache(self, audio, d) ==
    IF self.cls = "MelSpectrogramFixedRepeat"
       /\ process(self, audio, d).err = "none"
    THEN [self EXCEPT !.seq_dim =
            << self.n_mels, n_frames(Len(audio), self.hop_length) >>]
    ELSE self

\* the instance as self.process(audio) leaves it: no process method, no
\* apply_*_augmentations method and no parent process they call assigns an
\* attribute of self (the only assignments to self.* are in the __init__
\* methods); stretch_rate, offset, the masks and the noise are locals
self_after_process(self, audio, d) == self

\* AudioTransformBase.process_from_file: the call of load_audio_from_file
\* binds its keyword arguments to the parameters the function declares; a
\* keyword that is no parameter raises TypeError before the file is read.
\* audio is the waveform the file holds.
process_from_file(self, method, normalize, audio, d) ==
    IF ~(process_from_file_kwargs \subseteq load_audio_from_file_params)
    THEN Raise("TypeError", << >>)
    ELSE LET r == process(self, audio, d)
         IN  [r EXCEPT !.steps = << "load_audio_from_file" >> \o r.steps]

\* the instance as self.process_from_file(...) leaves it: it assigns no
\* attribute itself and runs self.process when the load has returned
self_after_process_from_file(self, method, normalize, audio, d) ==
    IF ~(process_from_file_kwargs \subseteq load_audio_from_file_params)
    THEN self
    ELSE self_after_process(self, audio, d)

(***************************************************************************)
(* The state machine.                                                      *)
(*   pipeline     the instance the caller holds (NoPipeline before the     *)
(*                factory has returned one)                                *)
(*   constructed  the classes whose constructor ran in the last factory    *)
(*                call                                                     *)
(*   call         the operation called last, with its arguments and draws  *)
(*   ret          what that call raised or returned                        *)
(* Every call runs to completion in one step.  The caller takes the result *)
(* (Consume) before it calls again.  The free functions of utils_audio     *)
(* read no pipeline; they are called from the state without one.           *)
(***************************************************************************)
VARIABLES pipeline, constructed, call, ret

vars == << pipeline, constructed, call, ret >>

SamplingRates == { 1, 2 }

Dims == { <<2, 3>>, <<3, 2>> }

AugSets == { S \in SUBSET SupportedAugmentations : Cardinality(S) <= MaxAugs }

NoCall == [op |-> "idle"]

NoRet == Return("none", << >>, << >>, NoLocals)

Idle == call.op = "idle"

Init ==
    /\ pipeline = NoPipeline
    /\ constructed = << >>
    /\ call = NoCall
    /\ ret = NoRet

\* pipeline = get_audio_transform(...)
GetAudioTransform ==
    /\ Idle
    /\ pipeline = NoPipeline
    /\ \E e \in AudioTransforms, sr \in SamplingRates, augs \in AugSets,
          dim \in Dims, kw \in AugKwargs :
          LET r == get_audio_transform(e, sr, augs, dim, kw)
          IN  /\ call' = [op |-> "get_audio_transform",
                          audio_transform_enum |-> e, sampling_rate |-> sr,
                          augmentation_enums |-> augs, dim |-> dim, kw |-> kw]
              /\ constructed' = r.constructed
              /\ pipeline' = IF r.raised = "none" THEN r.result ELSE pipeline
              /\ ret' = IF r.raised = "none" THEN NoRet
                        ELSE Raise(r.raised, << >>)

\* the draws one call of self.process can make on this waveform
Draws(self, audio) ==
    LET augs == self.augmentation_enums
        isAST == self.cls = "AudioTransformAST"
        isW2V == self.cls = "AudioTransformWav2Vec2"
        rates == IF "TIME_STRETCH" \in augs /\ (isAST \/ isW2V)
                 THEN uniform_rates(self.stretch_factors[1],
                                    self.stretch_factors[2])
                 ELSE { NoDraws.rate }
    IN  { d \in [lib : IF Len(audio) = 0
                       /\ (~isW2V \/ "TIME_STRETCH" \in augs)
                       THEN LibraryOutcomes ELSE { "ok" },
                 rate : rates,
                 offset : 0..MaxAudioLen,
                 timeinv : IF isAST /\ "TIMEINV" \in augs
                           THEN BOOLEAN ELSE { FALSE },
                 fm : IF isAST /\ "FREQ_MASK" \in augs
                      THEN MaskDraws(self.freq_mask_param, ASTShape[2])
                      ELSE { NoDraws.fm },
                 tm : IF isAST /\ "TIME_MASK" \in augs
                      THEN MaskDraws(self.time_mask_param, ASTShape[3])
                      ELSE { NoDraws.tm },
                 erase : IF isAST /\ "RANDOM_ERASE" \in augs
                         THEN EraseDraws(ASTShape[2], ASTShape[3])
                         ELSE { NoDraws.erase },
                 u : IF isAST /\ "RANDOM_PIXELS" \in augs
                     THEN UDraws(ASTShape) ELSE { NoDraws.u }] :
          d.offset \in (IF isW2V /\ "TIME_STRETCH" \in augs
                        THEN randint_offsets(trim_diff(audio, d.rate))
                        ELSE { NoDraws.offset }) }

\* pipeline.process(audio)
Process ==
    /\ Idle
    /\ pipeline # NoPipeline
    /\ \E audio \in Waveforms :
         \E d \in Draws(pipeline, audio) :
            /\ call' = [op |-> "process", audio |-> audio, d |-> d]
            /\ ret' = process(pipeline, audio, d)
            /\ pipeline' = self_after_process(pipeline, audio, d)
    /\ UNCHANGED constructed

\* the files process_from_file is called on hold these waveforms
FileWaveforms == { Waveform(0), Waveform(3) }

\* pipeline.process_from_file(path, method, normalize); process draws only
\* when the load has returned
ProcessFromFile ==
    /\ Idle
    /\ pipeline # NoPipeline
    /\ \E method \in { "torch", "librosa" }, normalize \in BOOLEAN,
          audio \in FileWaveforms :
         \E d \in (IF process_from_file_kwargs \subseteq
                         load_audio_from_file_params
                   THEN Draws(pipeline, audio) ELSE { NoDraws }) :
            /\ call' = [op |-> "process_from_file", method |-> method,
                        normalize |-> normalize, audio |-> audio, d |-> d]
            /\ ret' = process_from_file(pipeline, method, normalize, audio, d)
            /\ pipeline' = self_after_process_from_file(pipeline, method,
                                                        normalize, audio, d)
    /\ UNCHANGED constructed

StretchRanges ==
    { r \in RateGrid \X RateGrid : RateLeq(r[1], r[2]) }

\* time_stretch(audio, min_stretch, max_stretch, trim) on a non-empty signal
TimeStretch ==
    /\ Idle
    /\ pipeline = NoPipeline
    /\ \E audio \in Waveforms \ { << >> }, range \in StretchRanges,
          trim \in BOOLEAN :
         \E rate \in uniform_rates(range[1], range[2]) :
           \E offset \in (IF trim THEN randint_offsets(trim_diff(audio, rate))
                          ELSE { 0 }) :
              /\ call' = [op |-> "time_stretch", audio |-> audio,
                          min_stretch |-> range[1], max_stretch |-> range[2],
                          trim |-> trim, rate |-> rate, offset |-> offset]
              /\ ret' = Return("waveform",
                               time_stretch(audio, rate, offset, trim),
                               << >>, NoLocals)
    /\ UNCHANGED << pipeline, constructed >>

\* the arrays stereo_to_mono is called on: <<kind, ndim, audio>>
MonoInputs ==
    { <<"ndarray", 1, Waveform(n)>> : n \in 0..MaxAudioLen }
    \cup { <<k, 2, << Waveform(n), Waveform(n) >> >> :
             k \in { "ndarray", "tensor" }, n \in 0..MaxAudioLen }

\* stereo_to_mono(audio)
StereoToMono ==
    /\ Idle
    /\ pipeline = NoPipeline
    /\ \E a \in MonoInputs :
          /\ call' = [op |-> "stereo_to_mono", kind |-> a[1], ndim |-> a[2],
                      n |-> IF a[2] = 1 THEN Len(a[3]) ELSE Len(a[3][1])]
          /\ ret' = Return("array", stereo_to_mono(a[1], a[2], a[3]),
                           << >>, NoLocals)
    /\ UNCHANGED << pipeline, constructed >>

\* the caller takes the result of the last call
Consume ==
    /\ ~Idle
    /\ call' = NoCall
    /\ ret' = NoRet
    /\ UNCHANGED << pipeline, constructed >>

Next ==
    \/ GetAudioTransform
    \/ Process
    \/ ProcessFromFile
    \/ TimeStretch
    \/ StereoToMono
    \/ Consume

Spec == Init /\ [][Next]_vars

(***************************************************************************)
(* Properties.                                                             *)
(***************************************************************************)
\* data is nested as shape says
RECURSIVE DataHasShape(_, _)
DataHasShape(data, shape) ==
    IF Len(shape) = 0 THEN TRUE
    ELSE /\ Len(data) = Head(shape)
         /\ \A i \in 1..Len(data) : DataHasShape(data[i], Tail(shape))

IsTensorOfShape(t, shape) == t.shape = shape /\ DataHasShape(t.data, shape)

ProcessReturned == call.op = "process" /\ ret.err = "none"

RepeatClasses ==
    { "MelSpectrogramResizedRepeat", "MelSpectrogramFixedRepeat",
      "MFCCFixedRepeat" }

FixedClasses == { "MelSpectrogramFixedRepeat", "MFCCFixedRepeat" }

\* the dims the instance may have been configured with: its dim attribute,
\* or any dim of the factory call for a class that does not keep it
ConfiguredDims(self) ==
    IF "dim" \in DOMAIN self THEN { self.dim } ELSE Dims

\* every array of the returned value is (3, H, W) or (H, W)
OutputHasDim(r, dim) ==
    LET ok(t) == \/ IsTensorOfShape(t, <<3>> \o dim)
                 \/ IsTensorOfShape(t, dim)
    IN  IF r.kind = "list"
        THEN \A i \in 1..Len(r.value) : ok(r.value[i])
        ELSE r.kind = "tensor" /\ ok(r.value)

\* C1 as stated: for every variant and every non-empty waveform, process
\* returns output of the configured spatial dims (H, W).
C1_EveryVariantHasDim ==
    (call.op = "process" /\ Len(call.audio) > 0) =>
        /\ ret.err = "none"
        /\ \E dim \in ConfiguredDims(pipeline) : OutputHasDim(ret, dim)

\* C1 amended: on a non-empty waveform, the three repeat pipelines return
\* arrays (one array, or every chunk of the list) of shape exactly
\* (3, H, W) for the configured dim; the AST pipeline returns the extractor's
\* fixed shape and the wav2vec pipeline a 1-D array of sampling_rate * 3
\* samples; none of these shapes depends on the length of the waveform.
C1_OutputShape ==
    (call.op = "process" /\ Len(call.audio) > 0) =>
        /\ ret.err = "none"
        /\ pipeline.cls = "MelSpectrogramResizedRepeat" =>
              /\ ret.kind = "tensor"
              /\ IsTensorOfShape(ret.value, <<3>> \o pipeline.dim)
        /\ pipeline.cls \in FixedClasses =>
              /\ ret.kind = "list"
              /\ Len(ret.value) >= 1
              /\ \A i \in 1..Len(ret.value) :
                    IsTensorOfShape(ret.value[i], <<3>> \o pipeline.dim)
        /\ pipeline.cls = "AudioTransformAST" =>
              /\ ret.kind = "tensor"
              /\ IsTensorOfShape(ret.value, ASTShape)
        /\ pipeline.cls = "AudioTransformWav2Vec2" =>
              /\ ret.kind = "tensor"
              /\ IsTensorOfShape(ret.value, << pipeline.sampling_rate * 3 >>)

\* a fixed-repeat pipeline has returned two or more chunks for a waveform
\* longer than the reference
C1_Witness ==
    /\ ProcessReturned
    /\ Len(call.audio) > 0
    /\ pipeline.cls = "MelSpectrogramFixedRepeat"
    /\ Len(ret.value) >= 2
    /\ pipeline.dim # pipeline.seq_dim

\* C2: the factory raises UnsupportedAudioTransforms and constructs nothing
\* for a transform it has no branch for; for a supported transform it returns
\* the pipeline of exactly that class and raises nothing.
C2_FactoryClosedSet ==
    call.op = "get_audio_transform" =>
        IF call.audio_transform_enum \in SupportedTransforms
        THEN /\ ret.err = "none"
             /\ pipeline.cls = ClassOf(call.audio_transform_enum)
             /\ constructed = << ClassOf(call.audio_transform_enum) >>
             /\ pipeline.sampling_rate = call.sampling_rate
             /\ pipeline.augmentation_enums = call.augmentation_enums
        ELSE /\ ret.err = "UnsupportedAudioTransforms"
             /\ constructed = << >>
             /\ pipeline = NoPipeline

\* the factory has raised on an unknown transform
C2_Witness ==
    /\ call.op = "get_audio_transform"
    /\ call.audio_transform_enum = "OTHER_TRANSFORM"
    /\ ret.err = "UnsupportedAudioTransforms"

\* the number of all-zero columns of a chunk
ZeroColumns(chunk) ==
    Cardinality({ c \in 1..chunk.shape[2] :
                    \A r \in 1..chunk.shape[1] : chunk.data[r][c] = 0 })

\* C3: the chunks of the chunked-pad normaliser are the consecutive segments
\* [i*W, (i+1)*W) of the T frames, ceil(T / W) of them (more than one exactly
\* when T > W), they cover at least T frames, the last one holds
\* W - (T mod W) zero frames when W does not divide T and none when it does,
\* and no other chunk is padded.
C3_ChunkedPad ==
    (ProcessReturned /\ pipeline.cls \in FixedClasses) =>
        LET spectrogram == ret.locals.spectrogram
            chunks == ret.locals.chunks
            T == spectrogram.shape[2]
            W == pipeline.seq_dim[2]
            n == Len(chunks)
        IN  /\ T >= 1
            /\ (n - 1) * W < T /\ T <= n * W
            /\ (n > 1) <=> (T > W)
            /\ Len(ret.value) = n
            /\ \A i \in 1..n :
                  /\ IsTensorOfShape(chunks[i], pipeline.seq_dim)
                  /\ \A r \in 1..pipeline.seq_dim[1], c \in 1..W :
                        chunks[i].data[r][c] =
                            IF (i - 1) * W + c <= T
                            THEN spectrogram.data[r][(i - 1) * W + c]
                            ELSE 0
                  /\ ZeroColumns(chunks[i]) =
                        IF i = n /\ T % W # 0 THEN W - (T % W) ELSE 0

\* a padded last chunk after a full one
C3_Witness ==
    /\ ProcessReturned
    /\ pipeline.cls \in FixedClasses
    /\ Len(ret.locals.chunks) >= 2
    /\ ret.locals.spectrogram.shape[2] % pipeline.seq_dim[2] # 0

\* a non-empty input whose feature matrix is no wider than the reference
NoWiderThanReference ==
    /\ ProcessReturned
    /\ Len(call.audio) > 0
    /\ pipeline.cls = "MelSpectrogramFixedRepeat"
    /\ ret.locals.spectrogram.shape[2] <= pipeline.seq_dim[2]

\* C4 as stated: a feature matrix no wider than the reference yields a single
\* array of shape (3, H, W), not a sequence of chunks.
C4_SingleArray ==
    NoWiderThanReference =>
        /\ ret.kind = "tensor"
        /\ IsTensorOfShape(ret.value, <<3>> \o pipeline.dim)

\* C4 amended: a feature matrix no wider than the reference yields a list
\* that holds exactly one array, of shape (3, H, W).
C4_SingleChunkList ==
    NoWiderThanReference =>
        /\ ret.kind = "list"
        /\ Len(ret.value) = 1
        /\ IsTensorOfShape(ret.value[1], <<3>> \o pipeline.dim)

\* a waveform shorter than the reference has been processed and padded
C4_Witness ==
    /\ NoWiderThanReference
    /\ ret.locals.spectrogram.shape[2] < pipeline.seq_dim[2]

TrimmedStretch == call.op = "time_stretch" /\ call.trim

\* C5: time_stretch with trim returns exactly len(audio) samples for every
\* rate drawn, the degenerate range included; they are the window of the
\* stretched signal at an offset in [0, max(stretched - original, 0)], zero
\* padded at the end where the stretched signal runs out.
C5_TimeStretchKeepsLength ==
    TrimmedStretch =>
        LET n == Len(call.audio)
            m == stretched_len(n, call.rate)
        IN  /\ ret.err = "none"
            /\ Len(ret.value) = n
            /\ 0 <= call.offset /\ call.offset <= Max(m - n, 0)
            /\ RateLeq(call.min_stretch, call.rate)
            /\ RateLeq(call.rate, call.max_stretch)
            /\ \A i \in 1..n :
                  ret.value[i] =
                      IF call.offset + i <= m THEN call.offset + i ELSE 0

\* a degenerate range whose stretched signal is shorter than the input
C5_Witness ==
    /\ TrimmedStretch
    /\ call.min_stretch = call.max_stretch
    /\ stretched_len(Len(call.audio), call.rate) < Len(call.audio)
    /\ ret.value[Len(call.audio)] = 0

\* the value super().process returns to the repeat step of this call
BeforeRepeat ==
    CASE pipeline.cls = "MelSpectrogramResizedRepeat" ->
            MelSpectrogramResize_process(pipeline, call.audio, call.d)
      [] pipeline.cls = "MelSpectrogramFixedRepeat" ->
            MelSpectrogramFixed_process(pipeline, call.audio, call.d)
      [] pipeline.cls = "MFCCFixedRepeat" ->
            MFCCFixed_process(pipeline, call.audio, call.d)

\* t is (3, H, W) and each of its three channels equals the (H, W) feature
ThreeCopies(t, feature, dim) ==
    /\ IsTensorOfShape(t, <<3>> \o dim)
    /\ \A c \in 1..3 : t.data[c] = feature

\* C6: channel repeat with n = 3 turns the single-channel (H, W) feature into
\* a (3, H, W) output whose three channel slices each equal the input; it is
\* applied alike to the single feature of mel-resize-repeat and to every chunk
\* of the fixed-repeat pipelines, keeping the number and order of the chunks.
C6_ChannelRepeat ==
    (ProcessReturned /\ pipeline.cls \in RepeatClasses) =>
        LET before == BeforeRepeat.value
        IN  /\ pipeline.repeat = 3
            /\ pipeline.cls = "MelSpectrogramResizedRepeat" =>
                  /\ before.shape = <<1>> \o pipeline.dim
                  /\ ThreeCopies(ret.value, before.data[1], pipeline.dim)
            /\ pipeline.cls \in FixedClasses =>
                  /\ Len(ret.value) = Len(before)
                  /\ \A i \in 1..Len(before) :
                        /\ before[i].shape = pipeline.dim
                        /\ ThreeCopies(ret.value[i], before[i].data,
                                       pipeline.dim)

\* two chunks, different from each other, have been repeated
C6_Witness ==
    /\ ProcessReturned
    /\ pipeline.cls \in FixedClasses
    /\ Len(ret.value) >= 2
    /\ ret.value[1] # ret.value[2]
    /\ ret.value[1].data[1] = ret.value[1].data[3]

OnlyRandomPixels ==
    /\ ProcessReturned
    /\ pipeline.cls = "AudioTransformAST"
    /\ pipeline.augmentation_enums \cap SpecAugmentations = { "RANDOM_PIXELS" }

AllCells(shape) == (1..shape[1]) \X (1..shape[2]) \X (1..shape[3])

\* C7: with RANDOM_PIXELS the only feature augmentation, p = 0 returns the
\* feature matrix unchanged in every cell, p = 1 replaces every cell by a
\* noise sample; the shape is the same in both cases.
C7_RandomPixelsExtremes ==
    OnlyRandomPixels =>
        LET before == ret.locals.spectrogram
            p == pipeline.hide_random_pixels_p
        IN  /\ IsTensorOfShape(ret.value, before.shape)
            /\ RateLeq(p, <<0, 1>>) => ret.value = before
            /\ RateLeq(<<1, 1>>, p) =>
                  \A c \in AllCells(before.shape) :
                      LET v == ret.value.data[c[1]][c[2]][c[3]]
                      IN  /\ v < 0
                          /\ v # before.data[c[1]][c[2]][c[3]]
                          /\ \E k \in 1..Numel(before.shape) :
                                v = NoiseSample(k)

\* p = 0 and a cell whose uniform draw is exactly 0
C7_Witness ==
    /\ OnlyRandomPixels
    /\ pipeline.hide_random_pixels_p = <<0, 1>>
    /\ call.d.u[1][1][1] = <<0, 1>>
    /\ Len(call.audio) > 1

\* C8: process_from_file loads the file and returns exactly what process
\* returns on the loaded waveform, without error whenever process has none.
C8_ProcessFromFileDelegates ==
    call.op = "process_from_file" =>
        LET r == process(pipeline, call.audio, call.d)
        IN  /\ ret.err = r.err
            /\ ret.kind = r.kind
            /\ ret.value = r.value

\* C9: a zero-length waveform is rejected with the invalid-input error, by
\* process at entry (no step runs, nothing is returned) and by stereo_to_mono.
C9_EmptyInputRejected ==
    /\ (call.op = "process" /\ Len(call.audio) = 0) =>
          /\ ret.err = "InvalidInputError"
          /\ ret.steps = << >>
          /\ ret.kind = "none"
    /\ (call.op = "stereo_to_mono" /\ call.n = 0) =>
          ret.err = "InvalidInputError"

\* the augmentations each class honours (the variant table of the design)
Honors(cls) ==
    CASE cls = "AudioTransformAST" -> SupportedAugmentations
      [] cls = "AudioTransformWav2Vec2" -> { "TIME_STRETCH" }
      [] cls = "MelSpectrogramResizedRepeat" -> { "TIME_STRETCH" }
      [] cls = "MelSpectrogramFixedRepeat" -> { "TIME_STRETCH" }
      [] cls = "MFCCFixedRepeat" -> { }

\* C10: an augmentation the variant does not honour never raises, at
\* construction or in process, and has no effect: process returns what it
\* returns with the requested set restricted to the honoured augmentations.
C10_UnsupportedAugmentationIgnored ==
    /\ (call.op = "get_audio_transform"
        /\ call.audio_transform_enum \in SupportedTransforms) =>
          /\ ret.err = "none"
          /\ pipeline.augmentation_enums = call.augmentation_enums
    /\ call.op = "process" =>
          LET restricted ==
                [pipeline EXCEPT !.augmentation_enums =
                                    @ \cap Honors(pipeline.cls)]
              r == process(restricted, call.audio, call.d)
          IN  /\ Len(call.audio) > 0 => ret.err = "none"
              /\ ret.err = r.err
              /\ ret.kind = r.kind
              /\ ret.value = r.value
              /\ ret.locals = r.locals

\* the wav2vec pipeline has processed a waveform with feature-domain
\* augmentations requested
C10_Witness ==
    /\ ProcessReturned
    /\ pipeline.cls = "AudioTransformWav2Vec2"
    /\ pipeline.augmentation_enums = { "TIME_MASK", "RANDOM_PIXELS" }
    /\ Len(call.audio) > 0

\* the mel-spectrogram pipelines with channel repeat
MelRepeatClasses ==
    { "MelSpectrogramResizedRepeat", "MelSpectrogramFixedRepeat" }

\* the position of step in the trace of steps, 0 when it did not run
StepIndex(steps, step) ==
    IF \E i \in 1..Len(steps) : steps[i] = step
    THEN CHOOSE i \in 1..Len(steps) :
            steps[i] = step /\ \A j \in 1..(i - 1) : steps[j] # step
    ELSE 0

\* C11: in the mel-resize-repeat and mel-fixed-repeat pipelines, a process
\* call on a non-empty waveform with TIME_STRETCH enabled runs the time
\* stretch before the mel-spectrogram extraction, which runs before the
\* resize and the repeat; with TIME_STRETCH not enabled no stretch runs and
\* the extractor receives the caller's waveform unmodified.
C11_StretchBeforeExtraction ==
    (/\ ProcessReturned
     /\ pipeline.cls \in MelRepeatClasses
     /\ Len(call.audio) > 0)
    => IF "TIME_STRETCH" \in pipeline.augmentation_enums
       THEN /\ StepIndex(ret.steps, "time_stretch") > 0
            /\ StepIndex(ret.steps, "time_stretch")
                 < StepIndex(ret.steps, "melspectrogram")
            /\ StepIndex(ret.steps, "melspectrogram")
                 < StepIndex(ret.steps, "resize")
            /\ StepIndex(ret.steps, "resize")
                 < StepIndex(ret.steps, "repeat")
       ELSE /\ StepIndex(ret.steps, "time_stretch") = 0
            /\ ret.locals.audio = call.audio

\* a process call of the raw-waveform pipeline has returned
Wav2Vec2Returned ==
    ProcessReturned /\ pipeline.cls = "AudioTransformWav2Vec2"

\* C12: in the raw-waveform pipeline the waveform handed to the feature
\* extractor has exactly sampling_rate * 3 samples for every input length,
\* with and without TIME_STRETCH: the waveform that reaches the fixing step
\* has the length of the input (it is the input itself when TIME_STRETCH is
\* not enabled), the extractor receives its first sampling_rate * 3 samples
\* when it is longer, and all of it followed by zeros when it is shorter.
C12_FixedLengthWaveform ==
    Wav2Vec2Returned
    => LET size == pipeline.sampling_rate * 3
           before == ret.locals.stretched
           handed == ret.locals.audio
           n == Len(call.audio)
       IN  /\ Len(handed) = size
           /\ Len(before) = n
           /\ "TIME_STRETCH" \notin pipeline.augmentation_enums
                => before = call.audio
           /\ \A i \in 1..Min(n, size) : handed[i] = before[i]
           /\ \A i \in (n + 1)..size : handed[i] = 0
           /\ StepIndex(ret.steps, "time_stretch")
                < StepIndex(ret.steps, "fix_length")
           /\ StepIndex(ret.steps, "fix_length")
                < StepIndex(ret.steps, "feature_extractor")
           /\ ("TIME_STRETCH" \in pipeline.augmentation_enums)
                <=> (StepIndex(ret.steps, "time_stretch") = 1)

\* a longer input was stretched to a longer signal, trimmed and truncated
C12_Witness ==
    /\ Wav2Vec2Returned
    /\ "TIME_STRETCH" \in pipeline.augmentation_enums
    /\ RateLt(call.d.rate, <<1, 1>>)
    /\ call.d.offset > 0
    /\ Len(call.audio) > pipeline.sampling_rate * 3

\* a shorter input was stretched, trimmed and zero-padded
C12_WitnessShort ==
    /\ Wav2Vec2Returned
    /\ "TIME_STRETCH" \in pipeline.augmentation_enums
    /\ call.d.rate # <<1, 1>>
    /\ Len(call.audio) > 0
    /\ Len(call.audio) < pipeline.sampling_rate * 3

\* the operations that run self.process
ProcessOps == { "process", "process_from_file" }

====
